---- MODULE Spec2Model ----
(***************************************************************************)
(* Model of WhatsAppWebService                                             *)
(* (whatsapp-automation/backend/whatsapp_messages/whatsapp_web_service.py):*)
(* the session profile and its backup on disk, the browser contexts, and   *)
(* the dispatch calls send_message / send_bulk_messages together with the  *)
(* session recreation they fall back on, setup_session and the status      *)
(* view.  Every interaction with the browser or the platform is a step     *)
(* whose outcome the environment chooses.  Spec has one caller at a time,  *)
(* SpecConc adds a second dispatch call, SpecLocate runs element lookups,  *)
(* SpecNormalize normalizes addresses, SpecLive adds fairness of the call. *)
(* SpecCampaign, SpecTwice and SpecView put CampaignExecutionService and   *)
(* the bulk-send API view on top of send_bulk_messages.                    *)
(***************************************************************************)
EXTENDS Integers, Sequences, FiniteSets, TLC

\* ---------------------------------------------------------------- bounds
MaxRecipients == 2
MaxPolls == 2        \* polls of one WebDriverWait before it times out
MaxPhoneLen == 3     \* characters of a recipient address after its prefix

\* ------------------------------------------------------------- constants
None == "None"

\* A boolean as the observations record it.
Py(b) == IF b THEN "True" ELSE "False"

\* Recipient addresses, as sequences of tokens of the input string.
Phones == { <<"+", "1">>, <<"whatsapp:", "+", "2">> }

\* A directory on disk: absent, empty, an authenticated profile, or a
\* profile the platform no longer accepts; a copy that was interrupted leaves
\* a partial directory.
Contents == {"none", "empty", "valid", "stale", "partial"}

\* A stored login after the platform has logged the device out.
Aged(c) == IF c = "valid" THEN "stale" ELSE c

\* Error texts of the failed results (the fixed part of each message).
ErrRecreateFailed == "WhatsApp Web session expired and auto-recreation failed"
ErrNotActive == "WhatsApp Web session not active and auto-recreation failed"
ErrNotRestored == "WhatsApp Web session could not be restored"
ErrInvalidNumber == "Invalid phone number"
ErrChatLoad == "Chat failed to load"
ErrSendButton == "Could not find send button"
ErrDriverInit == "Driver initialization failed"
ErrException == "str(error)"

SessionErrors == {ErrRecreateFailed, ErrNotActive, ErrNotRestored}

\* ------------------------------------------------------- pure functions
\* to_phone.replace('whatsapp:', '') when to_phone.startswith('whatsapp:')
StripPrefix(p) ==
    IF Len(p) > 0 /\ p[1] = "whatsapp:"
      THEN SelectSeq(p, LAMBDA t : t # "whatsapp:")
      ELSE p

\* to_phone.replace('+', '').replace(' ', '').replace('-', '')
PhoneClean(p) == SelectSeq(p, LAMBDA t : t \notin {"+", " ", "-"})

\* Result of send_message on failure (no 'recipient' key).
FailedResult(err) ==
    [success |-> FALSE, message_sid |-> None, status |-> "failed", error |-> err]

\* Result of send_message on success.
SentResult ==
    [success |-> TRUE, message_sid |-> "whatsapp_web_time", status |-> "sent",
     error |-> None]

\* A failed result that still carries a message handle.
BulkFailedKeepsSid(err, rcpt) ==
    [success |-> FALSE, message_sid |-> <<"whatsapp_web_time">> \o PhoneClean(rcpt),
     status |-> "failed", error |-> err, recipient |-> rcpt]

\* Per-recipient result of send_bulk_messages on failure.
BulkFailed(err, rcpt) ==
    [success |-> FALSE, message_sid |-> None, status |-> "failed", error |-> err,
     recipient |-> rcpt]

\* Per-recipient result of send_bulk_messages on success.
BulkSent(rcpt) ==
    [success |-> TRUE, message_sid |-> <<"whatsapp_web_time">> \o PhoneClean(rcpt),
     status |-> "sent", error |-> None, recipient |-> rcpt]

\* The fail-all loop starting at the second recipient.
FailAllShort(res, R, err) ==
    res \o [i \in 1..(Len(R) - 1) |-> BulkFailed(err, R[i + 1])]

\* for phone_number in recipients: results.append({... 'error': err ...})
FailAll(res, R, err) == res \o [i \in 1..Len(R) |-> BulkFailed(err, R[i])]

\* ----------------------------------------------------------------- state
VARIABLES
    profile,     \* content of self.session_dir
    backup,      \* content of whatsapp_session_backup
    op,          \* the public call in progress ("none" when idle)
    pc,          \* position inside the call
    stack,       \* return positions of the nested private calls
    rv,          \* value returned by the last nested call
    recipients,  \* argument of the dispatch call
    idx,         \* position of the bulk loop in recipients
    results,     \* results list built by the dispatch call
    outcome,     \* "none" | "returned" | "raised", and retval for bool calls
    retval,      \* boolean returned by a session call, None otherwise
    driver,      \* local variable driver: "unbound" | "open" | "quit"
    validated,   \* login indicator observed in the context held by driver
    ctxOpen,     \* browser contexts open now
    ctxOpened,   \* browser contexts opened since the call started
    qrLocal,     \* 'qr_code' in locals() of send_message
    page,        \* what the last conversation navigation shows
    hist,        \* what the call has done so far (observations)
    trail,       \* last session-level events, across calls
    loc,         \* one element lookup: its candidates and how far it got
    other,       \* a second dispatch call running at the same time, and
                 \* how its last call ended
    norm,        \* one recipient address and what the dispatchers make of it
    camp         \* one campaign, its message rows and the calls working on it

vars == <<profile, backup, op, pc, stack, rv, recipients, idx, results, outcome,
          retval, driver, validated, ctxOpen, ctxOpened, qrLocal, page, hist,
          trail, loc, other, norm, camp>>

fsVars == <<profile, backup>>
callVars == <<op, recipients, idx, results, outcome, retval, qrLocal, page>>
driverVars == <<driver, validated, ctxOpen, ctxOpened>>

Hist0 ==
    [navLog |-> <<>>,            \* recipient positions navigated to, in order
     lookups |-> <<>>,           \* positions whose send control was looked up
     clicks |-> <<>>,            \* positions whose send control was clicked
     recreateCount |-> 0,        \* runs of _recreate_session_automatically
     recreateRv |-> None,        \* its return value
     recheck |-> None,           \* session re-check after recreation
     restored |-> FALSE,         \* backup copied over the profile
     tested |-> None,            \* result of _test_session_validity
     qrStarted |-> FALSE,        \* _setup_fresh_session_with_qr entered
     banner |-> {},              \* positions where the banner was shown
     okAtStart |-> FALSE,        \* first login check of the call succeeded
     profileAtCall |-> "none",   \* profile when the call started
     backupAtCall |-> "none",    \* backup when the call started
     handshake |-> None,         \* result of the last login handshake
     indicator |-> FALSE,        \* setup_session saw the login indicator
     initFailed |-> FALSE,       \* the first browser context failed to start
     navCtx |-> {},              \* browser contexts the recipients went through
     steps |-> <<>>,             \* UI steps performed for the current recipient
     overwritten |-> FALSE,      \* compose input set to the message text
     scenario |-> "none"]        \* trail when the call started

\* No lookup in progress.
Loc0 ==
    [kind |-> "none", n |-> 0, avail |-> <<>>, poll |-> 0, i |-> 0,
     invoked |-> {}, invokedNow |-> {}, ret |-> 0, done |-> FALSE]

\* No address under normalization.
Norm0 == [input |-> <<>>, single |-> <<>>, bulk |-> <<>>, again |-> <<>>, step |-> 0]

\* An execute_campaign call that has not started.
Exec0 ==
    [pc |-> "idle",
     read |-> "none",            \* campaign.status as this call loaded it
     ret |-> None,               \* result['success']
     err |-> None,               \* result['error']
     sessionFailed |-> FALSE,    \* every result was a session failure
     successful_sends |-> 0,
     failed_sends |-> 0]

\* The bulk-send API view between two requests.
View0 ==
    [pc |-> "idle",
     request |-> <<>>,           \* request.data['recipients']
     webFailed |-> FALSE,        \* WhatsApp Web sent nothing in the request:
                                 \* browser not started or session not established
     twilio |-> FALSE,           \* the request went through TwilioWhatsAppService
     records |-> <<>>]           \* status of the SentMessage rows created

\* The second caller between two of its calls.
Other0 == [pc |-> "idle", ctx |-> FALSE, last |-> "none"]

\* No campaign call under way: a draft campaign without recipients.
Camp0 ==
    [status |-> "draft",         \* Campaign.status in the database
     phones |-> <<>>,            \* phone numbers of the campaign's targets
     msgs |-> <<>>,              \* CampaignMessage rows
     ex |-> [e \in {1, 2} |-> Exec0],
     cancel |-> [pc |-> "idle", read |-> "none"],
     wasCancelled |-> FALSE,     \* a cancel has set the status to 'cancelled'
     view |-> View0]

\* The service and its callers, without the lookup.
mainVars ==
    <<profile, backup, op, pc, stack, rv, recipients, idx, results, outcome,
      retval, driver, validated, ctxOpen, ctxOpened, qrLocal, page, hist,
      trail, other, norm, camp>>

InitService ==
    /\ profile = "empty"
    /\ backup = "none"
    /\ op = "none"
    /\ pc = "idle"
    /\ stack = <<>>
    /\ rv = None
    /\ recipients = <<>>
    /\ idx = 1
    /\ results = <<>>
    /\ outcome = "none"
    /\ retval = None
    /\ driver = "unbound"
    /\ validated = FALSE
    /\ ctxOpen = 0
    /\ ctxOpened = 0
    /\ qrLocal = FALSE
    /\ page = "none"
    /\ hist = Hist0
    /\ trail = "none"
    /\ other = Other0

InitMain ==
    /\ InitService
    /\ camp = Camp0

Init ==
    /\ InitMain
    /\ loc = Loc0
    /\ norm = Norm0

\* ------------------------------------------------------------ environment
\* The platform logs the linked device out: every copy of the login expires.
PlatformLogout ==
    /\ "valid" \in {profile, backup}
    /\ profile' = IF profile = "valid" THEN "stale" ELSE profile
    /\ backup' = IF backup = "valid" THEN "stale" ELSE backup
    /\ trail' = "none"
    /\ UNCHANGED <<callVars, driverVars, pc, stack, rv, hist, loc, other, norm, camp>>

\* WhatsAppWebService.__init__: os.makedirs(self.session_dir, exist_ok=True)
Construct ==
    /\ pc = "idle"
    /\ profile = "none"
    /\ profile' = "empty"
    /\ trail' = "none"
    /\ UNCHANGED <<backup, callVars, driverVars, pc, stack, rv, hist, loc, other, norm, camp>>

\* shutil.rmtree(session_dir) by the operator between calls
DeleteProfile ==
    /\ pc = "idle"
    /\ profile # "none"
    /\ profile' = "none"
    /\ trail' = IF trail = "backed_up" THEN "backed_up_deleted" ELSE "none"
    /\ UNCHANGED <<backup, callVars, driverVars, pc, stack, rv, hist, loc, other, norm, camp>>

\* ------------------------------------------------------ calls and returns
\* A nested call: remember where to continue, jump to the callee.
Push(callee, cont) ==
    /\ pc' = callee
    /\ stack' = <<cont>> \o stack

\* Return from a nested call with value v.
Pop(v) ==
    /\ pc' = Head(stack)
    /\ stack' = Tail(stack)
    /\ rv' = v

\* Return of a session call (boolean result) to its caller, nested or public.
ReturnBool(v) ==
    IF stack # <<>>
      THEN Pop(v) /\ UNCHANGED <<outcome, retval>>
      ELSE /\ pc' = "done"
           /\ outcome' = "returned"
           /\ retval' = v
           /\ UNCHANGED <<stack, rv>>

\* Start of a public call: fresh locals and observations.
Enter(name, R, first) ==
    /\ pc = "idle"
    /\ op' = name
    /\ pc' = first
    /\ recipients' = R
    /\ idx' = 1
    /\ results' = <<>>
    /\ outcome' = "none"
    /\ retval' = None
    /\ driver' = "unbound"
    /\ validated' = FALSE
    /\ ctxOpened' = 0
    /\ qrLocal' = FALSE
    /\ page' = "none"
    /\ rv' = None
    /\ hist' = [Hist0 EXCEPT !.profileAtCall = profile, !.backupAtCall = backup,
                             !.scenario = trail]
    /\ UNCHANGED <<fsVars, stack, ctxOpen, loc, other, norm>>

\* A public call made by a caller outside the campaign layer.
Begin(name, R, first) == Enter(name, R, first) /\ UNCHANGED camp

\* The caller has its result; the service is idle again.
Leave ==
    /\ pc = "done"
    /\ pc' = "idle"
    /\ op' = "none"
    /\ recipients' = <<>>
    /\ idx' = 1
    /\ results' = <<>>
    /\ outcome' = "none"
    /\ retval' = None
    /\ driver' = "unbound"
    /\ validated' = FALSE
    /\ ctxOpened' = 0
    /\ qrLocal' = FALSE
    /\ page' = "none"
    /\ rv' = None
    /\ hist' = Hist0
    /\ UNCHANGED <<fsVars, stack, ctxOpen, trail, loc, other, norm>>

\* A caller outside the campaign layer has its result.
Finish == Leave /\ UNCHANGED camp

\* ------------------------------------------------------- browser contexts
\* The browser locks its user-data-dir: while a context of another caller
\* holds the profile, a new context on it does not start.
ProfileFree == ~other.ctx

\* driver = webdriver.Chrome(service=service, options=options)
OpenDriver ==
    /\ ProfileFree
    /\ driver' = "open"
    /\ validated' = FALSE
    /\ ctxOpen' = ctxOpen + 1
    /\ ctxOpened' = ctxOpened + 1

\* A driver.quit() that leaves the browser context running.
QuitDriverLeak ==
    /\ driver' = IF driver = "open" THEN "quit" ELSE driver
    /\ validated' = FALSE
    /\ UNCHANGED <<ctxOpen, ctxOpened>>

\* driver.quit(); on an unbound or already closed driver it raises and the
\* callers ignore that.
QuitDriver ==
    /\ driver' = IF driver = "open" THEN "quit" ELSE driver
    /\ validated' = FALSE
    /\ ctxOpen' = IF driver = "open" THEN ctxOpen - 1 ELSE ctxOpen
    /\ UNCHANGED ctxOpened

\* ------------------------------------------------- create_session_backup
call_create_session_backup ==
    /\ Begin("create_session_backup", <<>>, "cb_start")
    /\ trail' = "none"

\* if not os.path.exists(session_dir): return False; rmtree(backup_dir)
cb_start ==
    /\ pc = "cb_start"
    /\ IF profile = "none"
         THEN ReturnBool(FALSE) /\ UNCHANGED <<fsVars>>
         ELSE \/ /\ backup' = "none"
                 /\ pc' = "cb_copy"
                 /\ UNCHANGED <<profile, stack, rv, outcome, retval>>
              \/ /\ backup # "none"        \* rmtree raises
                 /\ ReturnBool(FALSE)
                 /\ UNCHANGED <<fsVars>>
    /\ UNCHANGED <<op, recipients, idx, results, driverVars, qrLocal, page, hist,
                   trail, loc, other, norm, camp>>

\* shutil.copytree(session_dir, backup_dir); return True
cb_copy ==
    /\ pc = "cb_copy"
    /\ \/ /\ backup' = profile
          /\ ReturnBool(TRUE)
          /\ trail' = IF stack = <<>> /\ profile = "valid"
                        THEN "backed_up" ELSE "none"
       \/ /\ ReturnBool(FALSE)             \* copytree raises, early or midway
          /\ \E left \in {"none", IF profile = "empty" THEN "empty" ELSE "partial"} :
                backup' = left
          /\ UNCHANGED trail
    /\ UNCHANGED <<profile, op, recipients, idx, results, driverVars, qrLocal,
                   page, hist, loc, other, norm, camp>>

\* ------------------------------------------------ _test_session_validity
\* Service(ChromeDriverManager().install()); webdriver.Chrome(...)
tv_start ==
    /\ pc = "tv_start"
    /\ \/ /\ ProfileFree
          /\ pc' = "tv_probe"
          /\ ctxOpen' = ctxOpen + 1
          /\ ctxOpened' = ctxOpened + 1
          /\ UNCHANGED <<stack, rv, outcome, retval, hist>>
       \/ /\ ReturnBool(FALSE)
          /\ hist' = [hist EXCEPT !.tested = "False"]
          /\ UNCHANGED <<ctxOpen, ctxOpened>>
    /\ UNCHANGED <<fsVars, op, recipients, idx, results, driver, validated,
                   qrLocal, page, trail, loc, other, norm, camp>>

\* variant: a probe that does not find the login indicator clears the profile
tv_probe_clears ==
    /\ pc = "tv_probe"
    /\ \E found \in {FALSE, profile = "valid"} :
          /\ ReturnBool(found)
          /\ hist' = [hist EXCEPT !.tested = Py(found)]
          /\ profile' = IF found THEN profile ELSE "empty"
    /\ ctxOpen' = ctxOpen - 1
    /\ UNCHANGED <<backup, op, recipients, idx, results, driver, validated,
                   ctxOpened, qrLocal, page, trail, loc, other, norm, camp>>

\* driver.get(home); wait for the login indicator; finally driver.quit()
tv_probe ==
    /\ pc = "tv_probe"
    /\ \E found \in {FALSE, profile = "valid"} :
          /\ ReturnBool(found)
          /\ hist' = [hist EXCEPT !.tested = Py(found)]
    /\ ctxOpen' = ctxOpen - 1
    /\ UNCHANGED <<fsVars, op, recipients, idx, results, driver, validated,
                   ctxOpened, qrLocal, page, trail, loc, other, norm, camp>>

\* --------------------------------------------- _setup_fresh_session_with_qr
\* Service(ChromeDriverManager().install()); webdriver.Chrome(...)
qr_start ==
    /\ pc = "qr_start"
    /\ hist' = [hist EXCEPT !.qrStarted = TRUE]
    /\ \/ /\ ProfileFree
          /\ pc' = "qr_wait"
          /\ ctxOpen' = ctxOpen + 1
          /\ ctxOpened' = ctxOpened + 1
          /\ UNCHANGED <<stack, rv, outcome, retval>>
       \/ /\ ReturnBool(FALSE)
          /\ UNCHANGED <<ctxOpen, ctxOpened>>
    /\ UNCHANGED <<fsVars, op, recipients, idx, results, driver, validated,
                   qrLocal, page, trail, loc, other, norm, camp>>

\* variant: the wait for the login indicator has no timeout and starts over
qr_wait_no_timeout ==
    /\ pc = "qr_wait"
    /\ \/ /\ profile' = "valid"
          /\ Push("cb_start", "qr_done")
          /\ UNCHANGED <<rv, outcome, retval, ctxOpen, hist>>
       \/ /\ hist' = [hist EXCEPT !.qrStarted = ~@]
          /\ UNCHANGED <<profile, pc, stack, rv, outcome, retval, ctxOpen>>
    /\ UNCHANGED <<backup, op, recipients, idx, results, driver, validated,
                   ctxOpened, qrLocal, page, trail, loc, other, norm, camp>>

\* driver.get(home); wait 60 s for the login indicator
qr_wait ==
    /\ pc = "qr_wait"
    /\ \/ /\ profile' = "valid"            \* the code is scanned in time
          /\ Push("cb_start", "qr_done")
          /\ UNCHANGED <<rv, outcome, retval, ctxOpen>>
       \/ /\ ReturnBool(FALSE)             \* navigation fails or wait times out
          /\ ctxOpen' = ctxOpen - 1
          /\ UNCHANGED <<profile>>
    /\ UNCHANGED <<backup, op, recipients, idx, results, driver, validated,
                   ctxOpened, qrLocal, page, hist, trail, loc, other, norm, camp>>

\* variant: the handshake returns and leaves its browser open
qr_done_keeps_browser ==
    /\ pc = "qr_done"
    /\ ReturnBool(TRUE)
    /\ hist' = [hist EXCEPT !.handshake = "True"]
    /\ UNCHANGED <<fsVars, op, recipients, idx, results, driver, validated,
                   ctxOpen, ctxOpened, qrLocal, page, trail, loc, other, norm, camp>>

\* after create_session_backup(): return True; finally driver.quit()
qr_done ==
    /\ pc = "qr_done"
    /\ ReturnBool(TRUE)
    /\ hist' = [hist EXCEPT !.handshake = "True"]
    /\ ctxOpen' = ctxOpen - 1
    /\ UNCHANGED <<fsVars, op, recipients, idx, results, driver, validated,
                   ctxOpened, qrLocal, page, trail, loc, other, norm, camp>>

\* ------------------------------------------ _recreate_session_automatically
\* Value returned by _recreate_session_automatically, noted for the caller.
RecreateReturn(v) ==
    /\ ReturnBool(v)
    /\ hist' = [hist EXCEPT !.recreateRv = Py(v)]

call_recreate_session_automatically ==
    /\ Begin("_recreate_session_automatically", <<>>, "rc_start")
    /\ trail' = "none"

\* if os.path.exists(session_dir): shutil.rmtree(...); os.makedirs(...)
rc_start ==
    /\ pc = "rc_start"
    /\ \/ /\ profile' = IF profile = "none" THEN "none" ELSE "empty"
          /\ pc' = "rc_restore"
          /\ hist' = [hist EXCEPT !.recreateCount = @ + 1]
          /\ UNCHANGED <<stack, rv, outcome, retval>>
       \/ /\ profile # "none"              \* rmtree raises
          /\ ReturnBool(FALSE)
          /\ hist' = [hist EXCEPT !.recreateCount = @ + 1, !.recreateRv = "False"]
          /\ UNCHANGED <<profile>>
    /\ UNCHANGED <<backup, op, recipients, idx, results, driverVars, qrLocal,
                   page, trail, loc, other, norm, camp>>

\* Recreation that goes to the fresh handshake without trying the backup.
rc_restore_fresh ==
    /\ pc = "rc_restore"
    /\ Push("qr_start", "rc_return")
    /\ UNCHANGED <<fsVars, rv, callVars, driverVars, hist, trail, loc, other, norm, camp>>

\* if os.path.exists(backup_dir): copytree(backup_dir, session_dir)
rc_restore ==
    /\ pc = "rc_restore"
    /\ IF backup # "none"
         THEN /\ profile' = backup
              /\ hist' = [hist EXCEPT !.restored = TRUE]
              /\ Push("tv_start", "rc_tested")
         ELSE /\ Push("qr_start", "rc_return")
              /\ UNCHANGED <<profile, hist>>
    /\ UNCHANGED <<backup, rv, callVars, driverVars, trail, loc, other, norm, camp>>

\* variant: the restored copy that failed the test is left in place
rc_tested_keeps_copy ==
    /\ pc = "rc_tested"
    /\ IF rv
         THEN RecreateReturn(TRUE) /\ UNCHANGED <<profile>>
         ELSE /\ Push("qr_start", "rc_return")
              /\ UNCHANGED <<profile, rv, outcome, retval, hist>>
    /\ UNCHANGED <<backup, op, recipients, idx, results, driverVars, qrLocal,
                   page, trail, loc, other, norm, camp>>

\* if self._test_session_validity(): return True; else clear the profile
rc_tested ==
    /\ pc = "rc_tested"
    /\ IF rv
         THEN RecreateReturn(TRUE) /\ UNCHANGED <<profile>>
         ELSE /\ profile' = "empty"
              /\ Push("qr_start", "rc_return")
              /\ UNCHANGED <<rv, outcome, retval, hist>>
    /\ UNCHANGED <<backup, op, recipients, idx, results, driverVars, qrLocal,
                   page, trail, loc, other, norm, camp>>

\* return self._setup_fresh_session_with_qr()
rc_return ==
    /\ pc = "rc_return"
    /\ RecreateReturn(rv)
    /\ UNCHANGED <<fsVars, op, recipients, idx, results, driverVars, qrLocal,
                   page, trail, loc, other, norm, camp>>

\* ------------------------------------------------------ send_bulk_messages
\* return results, through finally: driver.quit()
BulkReturn(res) ==
    /\ results' = res
    /\ pc' = "done"
    /\ outcome' = "returned"
    /\ QuitDriver

\* except Exception as e: 'Driver initialization failed' for every recipient
BulkExcept == BulkReturn(FailAll(results, recipients, ErrDriverInit))

\* The recipient as the loop body holds it after the prefix is removed.
LoopPhone == StripPrefix(recipients[idx])

\* The loop body leaving the loop on the first failure.
LoopAppendAbort(r) ==
    /\ results' = Append(results, r)
    /\ idx' = IF r.success THEN idx + 1 ELSE Len(recipients) + 1
    /\ pc' = "sb_loop"

\* One result appended by the loop body; on to the next recipient.
LoopAppend(r) ==
    /\ results' = Append(results, r)
    /\ idx' = idx + 1
    /\ pc' = "sb_loop"

call_send_bulk_messages ==
    /\ \E n \in 0..MaxRecipients : \E R \in [1..n -> Phones] :
          Begin("send_bulk_messages", R, "sb_install")
    /\ trail' = "none"

\* service = Service(ChromeDriverManager().install()), before the try
sb_install ==
    /\ pc = "sb_install"
    /\ \/ /\ pc' = "sb_start"
          /\ UNCHANGED <<outcome, hist>>
       \/ /\ pc' = "done"
          /\ outcome' = "raised"
          /\ hist' = [hist EXCEPT !.initFailed = TRUE]
    /\ UNCHANGED <<fsVars, op, stack, rv, recipients, idx, results, retval,
                   driverVars, qrLocal, page, trail, loc, other, norm, camp>>

\* driver = webdriver.Chrome(...); driver.execute_script(...)
sb_start ==
    /\ pc = "sb_start"
    /\ \/ /\ OpenDriver
          /\ pc' = "sb_home"
          /\ UNCHANGED <<results, outcome, hist>>
       \/ /\ BulkExcept
          /\ hist' = [hist EXCEPT !.initFailed = TRUE]
    /\ UNCHANGED <<fsVars, op, stack, rv, recipients, idx, retval, qrLocal, page,
                   trail, loc, other, norm, camp>>

\* driver.get(home); wait for the login indicator; on a timeout quit the
\* driver and recreate the session
sb_home ==
    /\ pc = "sb_home"
    /\ \/ /\ BulkExcept                     \* driver.get raises
          /\ UNCHANGED <<stack, hist>>
       \/ /\ profile = "valid"
          /\ validated' = TRUE
          /\ hist' = [hist EXCEPT !.okAtStart = TRUE]
          /\ pc' = "sb_loop"
          /\ UNCHANGED <<stack, results, outcome, driver, ctxOpen, ctxOpened>>
       \/ /\ QuitDriver
          /\ Push("rc_start", "sb_recreated")
          /\ UNCHANGED <<results, outcome, hist>>
    /\ UNCHANGED <<fsVars, op, rv, recipients, idx, retval, qrLocal, page, trail, loc, other, norm, camp>>

\* The recreation failure reported with the driver-failure text.
sb_recreated_wrong_text ==
    /\ pc = "sb_recreated"
    /\ IF rv
         THEN /\ pc' = "sb_reopen"
              /\ UNCHANGED <<results, outcome, driverVars>>
         ELSE BulkReturn(FailAll(results, recipients, ErrDriverInit))
    /\ UNCHANGED <<fsVars, op, stack, rv, recipients, idx, retval, qrLocal, page,
                   hist, trail, loc, other, norm, camp>>

\* success = self._recreate_session_automatically(); if not success: fail all
sb_recreated ==
    /\ pc = "sb_recreated"
    /\ IF rv
         THEN /\ pc' = "sb_reopen"
              /\ UNCHANGED <<results, outcome, driverVars>>
         ELSE BulkReturn(FailAll(results, recipients, ErrRecreateFailed))
    /\ UNCHANGED <<fsVars, op, stack, rv, recipients, idx, retval, qrLocal, page,
                   hist, trail, loc, other, norm, camp>>

\* try: driver = webdriver.Chrome(...) ... except: fail all
sb_reopen ==
    /\ pc = "sb_reopen"
    /\ \/ /\ OpenDriver
          /\ pc' = "sb_recheck"
          /\ UNCHANGED <<results, outcome, hist>>
       \/ /\ BulkReturn(FailAll(results, recipients, ErrNotRestored))
          /\ hist' = [hist EXCEPT !.recheck = "False"]
    /\ UNCHANGED <<fsVars, op, stack, rv, recipients, idx, retval, qrLocal, page,
                   trail, loc, other, norm, camp>>

\* driver.get(home); wait for the login indicator; except: fail all
sb_recheck ==
    /\ pc = "sb_recheck"
    /\ \/ /\ profile = "valid"
          /\ validated' = TRUE
          /\ hist' = [hist EXCEPT !.recheck = "True"]
          /\ pc' = "sb_loop"
          /\ UNCHANGED <<results, outcome, driver, ctxOpen, ctxOpened>>
       \/ /\ BulkReturn(FailAll(results, recipients, ErrNotRestored))
          /\ hist' = [hist EXCEPT !.recheck = "False"]
    /\ UNCHANGED <<fsVars, op, stack, rv, recipients, idx, retval, qrLocal, page,
                   trail, loc, other, norm, camp>>

\* A loop that opens a new browser context for every recipient.
sb_loop_new_context ==
    /\ pc = "sb_loop"
    /\ idx <= Len(recipients)
    /\ \/ /\ \E shown \in {"chat", "banner", "blank"} :
                /\ page' = shown
                /\ hist' = [hist EXCEPT !.navLog = Append(@, idx),
                                        !.navCtx = @ \cup {ctxOpened + 1},
                                        !.steps = <<"nav">>,
                                        !.banner = IF shown = "banner"
                                                     THEN @ \cup {idx} ELSE @]
          /\ pc' = "sb_wait"
          /\ UNCHANGED <<results, idx>>
       \/ /\ LoopAppend(BulkFailed(ErrException, LoopPhone))   \* get raises
          /\ hist' = [hist EXCEPT !.navLog = Append(@, idx),
                                  !.navCtx = @ \cup {ctxOpened + 1},
                                  !.steps = <<"nav">>]
          /\ UNCHANGED page
    /\ ctxOpened' = ctxOpened + 1
    /\ UNCHANGED <<fsVars, op, stack, rv, recipients, outcome, retval, driver,
                   validated, ctxOpen, qrLocal, trail, loc, other, norm, camp>>

\* for phone_number in recipients: ... driver.get(conversation URL)
sb_loop ==
    /\ pc = "sb_loop"
    /\ idx <= Len(recipients)
    /\ \/ /\ \E shown \in {"chat", "banner", "blank"} :
                /\ page' = shown
                /\ hist' = [hist EXCEPT !.navLog = Append(@, idx),
                                        !.navCtx = @ \cup {ctxOpened},
                                        !.steps = <<"nav">>,
                                        !.banner = IF shown = "banner"
                                                     THEN @ \cup {idx} ELSE @]
          /\ pc' = "sb_wait"
          /\ UNCHANGED <<results, idx>>
       \/ /\ LoopAppend(BulkFailed(ErrException, LoopPhone))   \* get raises
          /\ hist' = [hist EXCEPT !.navLog = Append(@, idx),
                                  !.navCtx = @ \cup {ctxOpened},
                                  !.steps = <<"nav">>]
          /\ UNCHANGED page
    /\ UNCHANGED <<fsVars, op, stack, rv, recipients, outcome, retval, driverVars,
                   qrLocal, trail, loc, other, norm, camp>>

\* send_button = WebDriverWait(driver, 30).until(EC.any_of(...))
sb_wait ==
    /\ pc = "sb_wait"
    /\ hist' = [hist EXCEPT !.lookups = Append(@, idx),
                            !.steps = Append(@, "lookup")]
    /\ \/ /\ page = "chat"
          /\ pc' = "sb_click"
          /\ UNCHANGED <<results, idx>>
       \/ LoopAppend(BulkFailed(ErrSendButton, LoopPhone))     \* wait times out
    /\ UNCHANGED <<fsVars, op, stack, rv, recipients, outcome, retval, driverVars,
                   qrLocal, page, trail, loc, other, norm, camp>>

\* A click that raised is retried from the lookup of the send control.
sb_click_retry ==
    /\ pc = "sb_click"
    /\ hist' = [hist EXCEPT !.clicks = Append(@, idx)]
    /\ \/ LoopAppend(BulkSent(LoopPhone))
       \/ /\ Len(hist.clicks) < 2 * MaxRecipients
          /\ pc' = "sb_wait"
          /\ UNCHANGED <<results, idx>>
    /\ UNCHANGED <<fsVars, op, stack, rv, recipients, outcome, retval, driverVars,
                   qrLocal, page, trail, loc, other, norm, camp>>

\* send_button.click(); results.append({'success': True, ...})
sb_click ==
    /\ pc = "sb_click"
    /\ hist' = [hist EXCEPT !.clicks = Append(@, idx),
                            !.navCtx = @ \cup {ctxOpened},
                            !.steps = Append(@, "click")]
    /\ \/ LoopAppend(BulkSent(LoopPhone))
       \/ LoopAppend(BulkFailed(ErrSendButton, LoopPhone))     \* click raises
    /\ UNCHANGED <<fsVars, op, stack, rv, recipients, outcome, retval, driverVars,
                   qrLocal, page, trail, loc, other, norm, camp>>

\* end of the loop: finally driver.quit(); return results
sb_finally ==
    /\ pc = "sb_loop"
    /\ idx > Len(recipients)
    /\ BulkReturn(results)
    /\ UNCHANGED <<fsVars, op, stack, rv, recipients, idx, retval, qrLocal, page,
                   hist, trail, loc, other, norm, camp>>


\* ------------------------------------------------------------ send_message
\* return {...}, through finally: driver.quit()
SingleReturn(r) ==
    /\ results' = <<r>>
    /\ pc' = "done"
    /\ outcome' = "returned"
    /\ QuitDriver

call_send_message ==
    /\ \E p \in Phones : Begin("send_message", <<p>>, "sm_init")
    /\ trail' = "none"

\* clean the number; Service(ChromeDriverManager().install());
\* driver = webdriver.Chrome(...), inside the outer try
sm_init ==
    /\ pc = "sm_init"
    /\ \/ /\ OpenDriver
          /\ pc' = "sm_home"
          /\ UNCHANGED <<results, outcome>>
       \/ SingleReturn(FailedResult(ErrException))
    /\ UNCHANGED <<fsVars, op, stack, rv, recipients, idx, retval, qrLocal, page,
                   hist, trail, loc, other, norm, camp>>

\* driver.get(home); wait for the login indicator
sm_home ==
    /\ pc = "sm_home"
    /\ \/ /\ SingleReturn(FailedResult(ErrException))   \* driver.get raises
          /\ UNCHANGED hist
       \/ /\ profile = "valid"
          /\ validated' = TRUE
          /\ hist' = [hist EXCEPT !.okAtStart = TRUE]
          /\ pc' = "sm_nav"
          /\ UNCHANGED <<results, outcome, driver, ctxOpen, ctxOpened>>
       \/ /\ pc' = "sm_qrfind"
          /\ UNCHANGED <<results, outcome, driverVars, hist>>
    /\ UNCHANGED <<fsVars, op, stack, rv, recipients, idx, retval, qrLocal, page,
                   trail, loc, other, norm, camp>>

\* qr_code = driver.find_element(...): found -> quit the driver and recreate;
\* not found -> except: pass, and 'qr_code' is not in locals()
sm_qrfind ==
    /\ pc = "sm_qrfind"
    /\ \/ /\ qrLocal' = TRUE
          /\ QuitDriver
          /\ Push("rc_start", "sm_qr_recreated")
       \/ /\ pc' = "sm_noqr"
          /\ UNCHANGED <<qrLocal, driverVars, stack>>
    /\ UNCHANGED <<fsVars, op, rv, recipients, idx, results, outcome, retval, page,
                   hist, trail, loc, other, norm, camp>>

\* if not success: return failed; driver = webdriver.Chrome(...), whose
\* exception the enclosing bare except swallows
sm_qr_recreated ==
    /\ pc = "sm_qr_recreated"
    /\ IF rv
         THEN \/ /\ OpenDriver
                 /\ pc' = "sm_qr_recheck"
                 /\ UNCHANGED <<results, outcome>>
              \/ /\ pc' = "sm_noqr"
                 /\ UNCHANGED <<results, outcome, driverVars>>
         ELSE SingleReturn(FailedResult(ErrRecreateFailed))
    /\ UNCHANGED <<fsVars, op, stack, rv, recipients, idx, retval, qrLocal, page,
                   hist, trail, loc, other, norm, camp>>

\* driver.get(home) (exception swallowed); wait for the login indicator,
\* except: return failed
sm_qr_recheck ==
    /\ pc = "sm_qr_recheck"
    /\ \/ /\ pc' = "sm_noqr"                \* driver.get raises, swallowed
          /\ UNCHANGED <<results, outcome, driverVars, hist>>
       \/ /\ profile = "valid"
          /\ validated' = TRUE
          /\ hist' = [hist EXCEPT !.recheck = "True"]
          /\ pc' = "sm_noqr"
          /\ UNCHANGED <<results, outcome, driver, ctxOpen, ctxOpened>>
       \/ /\ SingleReturn(FailedResult(ErrNotRestored))
          /\ hist' = [hist EXCEPT !.recheck = "False"]
    /\ UNCHANGED <<fsVars, op, stack, rv, recipients, idx, retval, qrLocal, page,
                   trail, loc, other, norm, camp>>

\* the same without the test of locals(): a second recreation after the
\* QR branch
sm_noqr_unguarded ==
    /\ pc = "sm_noqr"
    /\ QuitDriver
    /\ Push("rc_start", "sm_noqr_recreated")
    /\ UNCHANGED <<fsVars, callVars, rv, hist, trail, loc, other, norm, camp>>

\* if 'qr_code' not in locals(): driver.quit(); recreate the session
sm_noqr ==
    /\ pc = "sm_noqr"
    /\ IF qrLocal
         THEN /\ pc' = "sm_nav"
              /\ UNCHANGED <<driverVars, stack>>
         ELSE /\ QuitDriver
              /\ Push("rc_start", "sm_noqr_recreated")
    /\ UNCHANGED <<fsVars, callVars, rv, hist, trail, loc, other, norm, camp>>

\* The same with the test of success left out.
sm_noqr_recreated_unchecked ==
    /\ pc = "sm_noqr_recreated"
    /\ \/ /\ OpenDriver
          /\ pc' = "sm_noqr_recheck"
          /\ UNCHANGED <<results, outcome>>
       \/ SingleReturn(FailedResult(ErrException))
    /\ UNCHANGED <<fsVars, op, stack, rv, recipients, idx, retval, qrLocal, page,
                   hist, trail, loc, other, norm, camp>>

\* if not success: return failed; driver = webdriver.Chrome(...), whose
\* exception reaches the outer handler
sm_noqr_recreated ==
    /\ pc = "sm_noqr_recreated"
    /\ IF rv
         THEN \/ /\ OpenDriver
                 /\ pc' = "sm_noqr_recheck"
                 /\ UNCHANGED <<results, outcome>>
              \/ SingleReturn(FailedResult(ErrException))
         ELSE SingleReturn(FailedResult(ErrNotActive))
    /\ UNCHANGED <<fsVars, op, stack, rv, recipients, idx, retval, qrLocal, page,
                   hist, trail, loc, other, norm, camp>>

\* driver.get(home); wait for the login indicator, except: return failed
sm_noqr_recheck ==
    /\ pc = "sm_noqr_recheck"
    /\ \/ /\ SingleReturn(FailedResult(ErrException))   \* driver.get raises
          /\ UNCHANGED hist
       \/ /\ profile = "valid"
          /\ validated' = TRUE
          /\ hist' = [hist EXCEPT !.recheck = "True"]
          /\ pc' = "sm_nav"
          /\ UNCHANGED <<results, outcome, driver, ctxOpen, ctxOpened>>
       \/ /\ SingleReturn(FailedResult(ErrNotRestored))
          /\ hist' = [hist EXCEPT !.recheck = "False"]
    /\ UNCHANGED <<fsVars, op, stack, rv, recipients, idx, retval, qrLocal, page,
                   trail, loc, other, norm, camp>>

\* driver.get(chat_url)
sm_nav ==
    /\ pc = "sm_nav"
    /\ \/ /\ driver = "open"
          /\ \E shown \in {"chat", "banner", "blank"} :
                /\ page' = shown
                /\ hist' = [hist EXCEPT !.navLog = Append(@, 1),
                                        !.steps = <<"nav">>,
                                        !.banner = IF shown = "banner"
                                                     THEN @ \cup {1} ELSE @]
          /\ pc' = "sm_chat"
          /\ UNCHANGED <<results, outcome, driverVars>>
       \/ /\ SingleReturn(FailedResult(ErrException))   \* driver.get raises
          /\ hist' = [hist EXCEPT !.navLog = Append(@, 1), !.steps = <<"nav">>]
          /\ UNCHANGED page
    /\ UNCHANGED <<fsVars, op, stack, rv, recipients, idx, retval, qrLocal, trail, loc, other, norm, camp>>

\* wait for the compose input or the error banner; check the banner
sm_chat ==
    /\ pc = "sm_chat"
    /\ hist' = [hist EXCEPT !.steps = Append(@, "chat_wait")]
    /\ CASE page = "chat" ->
              /\ pc' = "sm_input"
              /\ UNCHANGED <<results, outcome, driverVars>>
         [] page = "banner" -> SingleReturn(FailedResult(ErrInvalidNumber))
         [] OTHER -> SingleReturn(FailedResult(ErrChatLoad))
    /\ UNCHANGED <<fsVars, op, stack, rv, recipients, idx, retval, qrLocal, page,
                   trail, loc, other, norm, camp>>

\* find the message input; if message_input: set its text to message_content
\* with execute_script; when no selector matches it stays None and is skipped
sm_input ==
    /\ pc = "sm_input"
    /\ \/ /\ pc' = "sm_wait"                 \* found and set
          /\ hist' = [hist EXCEPT !.overwritten = TRUE,
                                  !.steps = Append(@, "overwrite")]
          /\ UNCHANGED <<results, outcome, driverVars>>
       \/ /\ pc' = "sm_wait"                 \* not found
          /\ UNCHANGED <<results, outcome, driverVars, hist>>
       \/ /\ SingleReturn(FailedResult(ErrSendButton))     \* execute_script raises
          /\ UNCHANGED hist
    /\ UNCHANGED <<fsVars, op, stack, rv, recipients, idx, retval, qrLocal, page,
                   trail, loc, other, norm, camp>>

\* send_button = WebDriverWait(driver, 30).until(EC.any_of(...))
sm_wait ==
    /\ pc = "sm_wait"
    /\ hist' = [hist EXCEPT !.lookups = Append(@, 1),
                            !.steps = Append(@, "lookup")]
    /\ \/ /\ pc' = "sm_click"
          /\ UNCHANGED <<results, outcome, driverVars>>
       \/ SingleReturn(FailedResult(ErrSendButton))     \* wait times out
    /\ UNCHANGED <<fsVars, op, stack, rv, recipients, idx, retval, qrLocal, page,
                   trail, loc, other, norm, camp>>

\* send_button.click(); return the sent result
sm_click ==
    /\ pc = "sm_click"
    /\ hist' = [hist EXCEPT !.clicks = Append(@, 1),
                            !.steps = Append(@, "click")]
    /\ \/ SingleReturn(SentResult)
       \/ SingleReturn(FailedResult(ErrSendButton))     \* click raises
    /\ UNCHANGED <<fsVars, op, stack, rv, recipients, idx, retval, qrLocal, page,
                   trail, loc, other, norm, camp>>

\* ----------------------------------------------------------- setup_session
call_setup_session ==
    /\ Begin("setup_session", <<>>, "ss_start")
    /\ trail' = "none"

\* service = Service(ChromeDriverManager().install());
\* driver = webdriver.Chrome(...), both before the try
ss_start ==
    /\ pc = "ss_start"
    /\ \/ /\ OpenDriver
          /\ pc' = "ss_wait"
          /\ UNCHANGED <<outcome, hist>>
       \/ /\ pc' = "done"
          /\ outcome' = "raised"
          /\ hist' = [hist EXCEPT !.initFailed = TRUE]
          /\ UNCHANGED driverVars
    /\ UNCHANGED <<fsVars, op, stack, rv, recipients, idx, results, retval,
                   qrLocal, page, trail, loc, other, norm, camp>>

\* A handshake that falls back on the session recreation when it times out.
ss_wait_recreates ==
    /\ pc = "ss_wait"
    /\ \/ /\ profile' = "valid"
          /\ validated' = TRUE
          /\ hist' = [hist EXCEPT !.indicator = TRUE]
          /\ Push("cb_start", "ss_done")
          /\ UNCHANGED <<rv, outcome, retval, driver, ctxOpen, ctxOpened>>
       \/ /\ QuitDriver
          /\ Push("rc_start", "ss_done")
          /\ UNCHANGED <<profile, rv, outcome, retval, hist>>
    /\ UNCHANGED <<backup, op, recipients, idx, results, qrLocal, page, trail, loc, other, norm, camp>>

\* driver.get(home); wait 120 s for the login indicator; then
\* self.create_session_backup(); except: return False; finally: driver.quit()
ss_wait ==
    /\ pc = "ss_wait"
    /\ \/ /\ profile' = "valid"            \* the code is scanned in time
          /\ validated' = TRUE
          /\ hist' = [hist EXCEPT !.indicator = TRUE]
          /\ Push("cb_start", "ss_done")
          /\ UNCHANGED <<rv, outcome, retval, driver, ctxOpen, ctxOpened>>
       \/ /\ pc' = "done"                  \* navigation fails or wait times out
          /\ outcome' = "returned"
          /\ retval' = FALSE
          /\ hist' = [hist EXCEPT !.handshake = "False"]
          /\ QuitDriver
          /\ UNCHANGED <<profile, stack, rv>>
    /\ UNCHANGED <<backup, op, recipients, idx, results, qrLocal, page, trail, loc, other, norm, camp>>

\* after create_session_backup(): return True; finally: driver.quit()
ss_done ==
    /\ pc = "ss_done"
    /\ pc' = "done"
    /\ outcome' = "returned"
    /\ retval' = TRUE
    /\ hist' = [hist EXCEPT !.handshake = "True"]
    /\ QuitDriver
    /\ UNCHANGED <<fsVars, op, stack, rv, recipients, idx, results, qrLocal, page,
                   trail, loc, other, norm, camp>>

\* ------------------------------------- _test_session_validity, called alone
call_test_session_validity ==
    /\ Begin("_test_session_validity", <<>>, "tv_start")
    /\ trail' = "none"

\* ------------------------------------------------------ whatsapp_web_status
call_whatsapp_web_status ==
    /\ Begin("whatsapp_web_status", <<>>, "ws_construct")
    /\ trail' = "none"

\* service = WhatsAppWebService(): os.makedirs(self.session_dir, exist_ok=True)
ws_construct ==
    /\ pc = "ws_construct"
    /\ profile' = IF profile = "none" THEN "empty" ELSE profile
    /\ pc' = "ws_check"
    /\ UNCHANGED <<backup, callVars, stack, rv, driverVars, hist, trail, loc, other, norm, camp>>

\* session_exists = os.path.exists(os.path.join(service.session_dir, 'Default'))
ws_check ==
    /\ pc = "ws_check"
    /\ retval' = (profile \in {"valid", "stale"})
    /\ pc' = "done"
    /\ outcome' = "returned"
    /\ UNCHANGED <<fsVars, op, stack, rv, recipients, idx, results, driverVars,
                   qrLocal, page, hist, trail, loc, other, norm, camp>>


Next ==
    \/ PlatformLogout
    \/ Construct
    \/ DeleteProfile
    \/ Finish
    \/ call_create_session_backup
    \/ cb_start
    \/ cb_copy
    \/ tv_start
    \/ tv_probe
    \/ qr_start
    \/ qr_wait
    \/ qr_done
    \/ call_recreate_session_automatically
    \/ rc_start
    \/ rc_restore
    \/ rc_tested
    \/ rc_return
    \/ call_send_bulk_messages
    \/ sb_install
    \/ sb_start
    \/ sb_home
    \/ sb_recreated
    \/ sb_reopen
    \/ sb_recheck
    \/ sb_loop
    \/ sb_wait
    \/ sb_click
    \/ sb_finally
    \/ call_send_message
    \/ sm_init
    \/ sm_home
    \/ sm_qrfind
    \/ sm_qr_recreated
    \/ sm_qr_recheck
    \/ sm_noqr
    \/ sm_noqr_recreated
    \/ sm_noqr_recheck
    \/ sm_nav
    \/ sm_chat
    \/ sm_input
    \/ sm_wait
    \/ sm_click
    \/ call_setup_session
    \/ ss_start
    \/ ss_wait
    \/ ss_done
    \/ call_test_session_validity
    \/ call_whatsapp_web_status
    \/ ws_construct
    \/ ws_check

Spec == Init /\ [][Next]_vars

\* The steps of the call in progress: every action but the callers' entries,
\* the caller reading the result, and the environment.
CallStep ==
    \/ cb_start
    \/ cb_copy
    \/ tv_start
    \/ tv_probe
    \/ qr_start
    \/ qr_wait
    \/ qr_done
    \/ rc_start
    \/ rc_restore
    \/ rc_tested
    \/ rc_return
    \/ sb_install
    \/ sb_start
    \/ sb_home
    \/ sb_recreated
    \/ sb_reopen
    \/ sb_recheck
    \/ sb_loop
    \/ sb_wait
    \/ sb_click
    \/ sb_finally
    \/ sm_init
    \/ sm_home
    \/ sm_qrfind
    \/ sm_qr_recreated
    \/ sm_qr_recheck
    \/ sm_noqr
    \/ sm_noqr_recreated
    \/ sm_noqr_recheck
    \/ sm_nav
    \/ sm_chat
    \/ sm_input
    \/ sm_wait
    \/ sm_click
    \/ ss_start
    \/ ss_wait
    \/ ss_done
    \/ ws_construct
    \/ ws_check

\* The call runs on its own thread of control: each statement it has reached is
\* eventually executed, and every wait it makes ends by its timeout at the latest.
SpecLive == Init /\ [][Next]_vars /\ WF_<<pc, stack, hist>>(CallStep)

\* ------------------------------------------------------- element lookups
\* Number of selectors tried for the compose input, of conditions given to
\* EC.any_of for the send control in send_message, and in send_bulk_messages.
ComposeCandidates == 3
SendCandidates == 7
BulkSendCandidates == 5

\* A lookup about to start: avail[k] is the first poll at which candidate k
\* matches, 0 when it never does.  The chain of find_element calls looks once.
LocInputs ==
    {[Loc0 EXCEPT !.kind = "chain", !.n = ComposeCandidates, !.avail = a,
                  !.poll = 1, !.i = 1] :
        a \in [1..ComposeCandidates -> 0..1]}
    \cup
    UNION {{[Loc0 EXCEPT !.kind = "wait", !.n = n, !.avail = a, !.poll = 1,
                         !.i = 1] : a \in [1..n -> 0..MaxPolls]} :
              n \in {SendCandidates, BulkSendCandidates}}

InitLocate ==
    /\ InitMain
    /\ loc \in LocInputs
    /\ norm = Norm0

\* variant: a candidate counts as matching as soon as it will match at some
\* poll of the window
MatchesWithinWindow(l, k) == l.avail[k] # 0

\* Candidate k matches when it is invoked in the current poll.
Matches(l, k) == l.avail[k] # 0 /\ l.avail[k] <= l.poll

\* try: message_input = driver.find_element(...) except: try the next one
FindStep(l) ==
    [l EXCEPT !.invoked = @ \cup {l.i},
              !.invokedNow = @ \cup {l.i},
              !.ret = IF Matches(l, l.i) THEN l.i ELSE 0,
              !.done = Matches(l, l.i) \/ l.i = l.n,
              !.i = @ + 1]

\* An any_of that evaluates every condition and returns the first truthy one.
AnyOfStepEager(l) ==
    [l EXCEPT !.invoked = @ \cup {l.i},
              !.invokedNow = @ \cup {l.i},
              !.ret = IF @ # 0 THEN @ ELSE IF Matches(l, l.i) THEN l.i ELSE 0,
              !.done = ((l.i = l.n) /\ (l.ret # 0 \/ Matches(l, l.i))),
              !.i = @ + 1]

\* EC.any_of(...): the conditions are evaluated in the order given and the
\* first truthy result is returned
AnyOfStep(l) ==
    [l EXCEPT !.invoked = @ \cup {l.i},
              !.invokedNow = @ \cup {l.i},
              !.ret = IF Matches(l, l.i) THEN l.i ELSE 0,
              !.done = Matches(l, l.i),
              !.i = @ + 1]

\* The next selector of the compose-input chain.
ci_try ==
    /\ loc.kind = "chain"
    /\ ~loc.done
    /\ loc' = FindStep(loc)
    /\ UNCHANGED mainVars

\* The next condition of any_of within one poll of WebDriverWait.until.
sw_try ==
    /\ loc.kind = "wait"
    /\ ~loc.done
    /\ loc.i <= loc.n
    /\ loc' = AnyOfStep(loc)
    /\ UNCHANGED mainVars

\* any_of returned False: sleep and poll again, or raise TimeoutException.
sw_poll ==
    /\ loc.kind = "wait"
    /\ ~loc.done
    /\ loc.i > loc.n
    /\ loc' = IF loc.poll < MaxPolls
                THEN [loc EXCEPT !.poll = @ + 1, !.i = 1, !.invokedNow = {}]
                ELSE [loc EXCEPT !.done = TRUE]
    /\ UNCHANGED mainVars

NextLocate ==
    \/ ci_try
    \/ sw_try
    \/ sw_poll

SpecLocate == InitLocate /\ [][NextLocate]_vars

\* ------------------------------------------------ address normalization
\* Characters a recipient address is written with, and the digits among them.
PhoneChars == {"+", " ", "-", "(", ")", ".", "1", "2"}
Digits == {"1", "2"}

\* Addresses of up to MaxPhoneLen characters, with and without the prefix.
PhoneInputs ==
    LET bodies == UNION {[1..n -> PhoneChars] : n \in 1..MaxPhoneLen}
    IN  bodies \cup {<<"whatsapp:">> \o b : b \in bodies}

InitNormalize ==
    /\ InitMain
    /\ loc = Loc0
    /\ norm \in {[Norm0 EXCEPT !.input = p] : p \in PhoneInputs}

\* send_message: strip the prefix, then phone_clean = to_phone.replace(...)
SingleAddress(p) == PhoneClean(StripPrefix(p))

\* send_bulk_messages, loop body: the same two statements
BulkAddress(p) == PhoneClean(StripPrefix(p))

restVars ==
    <<fsVars, callVars, driverVars, pc, stack, rv, hist, trail, loc, other, camp>>

\* The address send_message puts into the conversation URL.
nm_single ==
    /\ norm.step = 0
    /\ norm' = [norm EXCEPT !.single = SingleAddress(norm.input), !.step = 1]
    /\ UNCHANGED restVars

\* The address send_bulk_messages puts into the conversation URL.
nm_bulk ==
    /\ norm.step = 1
    /\ norm' = [norm EXCEPT !.bulk = BulkAddress(norm.input), !.step = 2]
    /\ UNCHANGED restVars

\* The normalized address given to send_message again.
nm_again ==
    /\ norm.step = 2
    /\ norm' = [norm EXCEPT !.again = SingleAddress(norm.single), !.step = 3]
    /\ UNCHANGED restVars

NextNormalize ==
    \/ nm_single
    \/ nm_bulk
    \/ nm_again

SpecNormalize == InitNormalize /\ [][NextNormalize]_vars

\* ---------------------------------------------- a second, concurrent caller
\* Another request runs send_message on the same service directory while the
\* first caller is anywhere in its own call.  It is followed along the paths
\* on which its recreation cannot start a browser.
firstVars == <<callVars, driverVars, pc, stack, rv, hist, trail, loc, norm, camp>>

\* driver = webdriver.Chrome(...) on the shared user-data-dir
o_init ==
    /\ other.pc = "idle"
    /\ ctxOpen = 0
    /\ other' = [pc |-> "home", ctx |-> TRUE, last |-> "none"]
    /\ UNCHANGED <<fsVars, firstVars>>

\* driver.get(home); wait for the login indicator; on a timeout driver.quit()
\* and recreate the session
o_home ==
    /\ other.pc = "home"
    /\ \/ /\ profile = "valid"
          /\ other' = [other EXCEPT !.pc = "send"]
       \/ other' = [other EXCEPT !.pc = "recreate", !.ctx = FALSE]
    /\ UNCHANGED <<fsVars, firstVars>>

\* _recreate_session_automatically: rmtree(session_dir) and makedirs, the
\* backup restored and cleared again, no browser for the handshake: False
o_recreate ==
    /\ other.pc = "recreate"
    /\ profile' = IF profile = "none" /\ backup = "none" THEN "none" ELSE "empty"
    /\ other' = [Other0 EXCEPT !.last = "failed"]
    /\ UNCHANGED <<backup, firstVars>>

\* the conversation is opened and the message sent; finally: driver.quit()
o_send ==
    /\ other.pc = "send"
    /\ \E result \in {"sent", "failed"} : other' = [Other0 EXCEPT !.last = result]
    /\ UNCHANGED <<fsVars, firstVars>>

\* The first caller runs send_message, with the recreation behind it.
NextConc ==
    \/ PlatformLogout
    \/ Finish
    \/ cb_start
    \/ cb_copy
    \/ tv_start
    \/ tv_probe
    \/ qr_start
    \/ qr_wait
    \/ qr_done
    \/ rc_start
    \/ rc_restore
    \/ rc_tested
    \/ rc_return
    \/ call_send_message
    \/ sm_init
    \/ sm_home
    \/ sm_qrfind
    \/ sm_qr_recreated
    \/ sm_qr_recheck
    \/ sm_noqr
    \/ sm_noqr_recreated
    \/ sm_noqr_recheck
    \/ sm_nav
    \/ sm_chat
    \/ sm_input
    \/ sm_wait
    \/ sm_click
    \/ o_init
    \/ o_home
    \/ o_recreate
    \/ o_send

SpecConc == Init /\ [][NextConc]_vars

\* ================================================================ campaigns
\* CampaignExecutionService (campaigns/services.py) and the views that start
\* and cancel a campaign; a campaign run dispatches through send_bulk_messages.
ErrCampaignState == "Campaign is in this state and cannot be executed"
ErrNoRecipients == "No recipients found for campaign"

Executors == {1, 2}

\* Everything but the campaign layer.
svcVars ==
    <<fsVars, callVars, driverVars, pc, stack, rv, hist, trail, loc, other, norm>>

\* Sequences without repetition: a phone number is a target only once.
Distinct(q) == \A i, j \in 1..Len(q) : q[i] = q[j] => i = j

\* A campaign is created with its targets, as a draft or scheduled.
cp_create ==
    /\ camp = Camp0
    /\ \E n \in 0..MaxRecipients : \E R \in [1..n -> Phones] :
          \E st \in {"draft", "scheduled"} :
             /\ Distinct(R)
             /\ camp' = [camp EXCEPT !.phones = R, !.status = st,
                                     !.cancel.read = "created"]
    /\ UNCHANGED svcVars

Created == camp.cancel.read # "none"

\* campaign = Campaign.objects.get(id=campaign_id)
ec_get(e) ==
    /\ Created
    /\ camp.ex[e].pc = "idle"
    /\ camp' = [camp EXCEPT !.ex[e].pc = "check", !.ex[e].read = camp.status]
    /\ UNCHANGED svcVars

\* if campaign.status not in ['draft', 'scheduled']: return failure;
\* campaign.status = 'running'; campaign.save()
ec_start(e) ==
    /\ camp.ex[e].pc = "check"
    /\ IF camp.ex[e].read \notin {"draft", "scheduled"}
         THEN camp' = [camp EXCEPT !.ex[e].pc = "done", !.ex[e].ret = "False",
                                   !.ex[e].err = ErrCampaignState]
         ELSE camp' = [camp EXCEPT !.ex[e].pc = "recipients", !.status = "running"]
    /\ UNCHANGED svcVars

\* The rows _create_campaign_messages adds for the recipients.
NewMessages(e) ==
    [i \in 1..Len(camp.phones) |->
        [phone |-> camp.phones[i], status |-> "pending", by |-> e]]

\* recipients = self._get_campaign_recipients(campaign); none: status 'failed';
\* otherwise self._create_campaign_messages(campaign, recipients)
ec_create(e) ==
    /\ camp.ex[e].pc = "recipients"
    /\ IF camp.phones = <<>>
         THEN camp' = [camp EXCEPT !.ex[e].pc = "done", !.ex[e].ret = "False",
                                   !.ex[e].err = ErrNoRecipients,
                                   !.status = "failed"]
         ELSE camp' = [camp EXCEPT !.ex[e].pc = "send",
                                   !.msgs = @ \o NewMessages(e)]
    /\ UNCHANGED svcVars

\* recipients = [msg.recipient_phone for msg in pending_messages]
PendingPhones ==
    LET pend == SelectSeq(camp.msgs, LAMBDA m : m.status = "pending")
    IN  [i \in 1..Len(pend) |-> pend[i].phone]

\* results = self.whatsapp_web_service.send_bulk_messages(recipients, content)
ec_send(e) ==
    /\ camp.ex[e].pc = "send"
    /\ Enter("send_bulk_messages", PendingPhones, "sb_install")
    /\ trail' = "none"
    /\ camp' = [camp EXCEPT !.ex[e].pc = "sending"]

\* for result in results: campaign_message = pending_messages.get(
\* recipient_phone=result['recipient']); set it 'sent' or 'failed' and count;
\* except CampaignMessage.DoesNotExist: log a warning.  Two matching rows
\* raise MultipleObjectsReturned, which is not caught here.
RECURSIVE ApplyResults(_, _, _, _, _)
ApplyResults(m, res, i, s, f) ==
    IF i > Len(res)
      THEN [msgs |-> m, successful_sends |-> s, failed_sends |-> f, raised |-> FALSE]
      ELSE LET hits == {k \in 1..Len(m) : /\ m[k].status = "pending"
                                           /\ m[k].phone = res[i].recipient}
           IN  IF hits = {}
                 THEN ApplyResults(m, res, i + 1, s, f)
                 ELSE IF Cardinality(hits) > 1
                   THEN [msgs |-> m, successful_sends |-> s, failed_sends |-> f,
                         raised |-> TRUE]
                   ELSE LET k == CHOOSE k \in hits : TRUE
                        IN  IF res[i].success
                              THEN ApplyResults([m EXCEPT ![k].status = "sent"],
                                                res, i + 1, s + 1, f)
                              ELSE ApplyResults([m EXCEPT ![k].status = "failed"],
                                                res, i + 1, s, f + 1)

\* the loop over the results; an exception goes to
\* except Exception as e: campaign.status = 'failed'; return failure
ec_results(e) ==
    /\ camp.ex[e].pc = "sending"
    /\ op = "send_bulk_messages"
    /\ Leave
    /\ IF outcome = "raised"
         THEN camp' = [camp EXCEPT !.ex[e].pc = "done", !.ex[e].ret = "False",
                                   !.ex[e].err = ErrException,
                                   !.status = "failed"]
         ELSE LET a == ApplyResults(camp.msgs, results, 1, 0, 0)
                  allSession == /\ results # <<>>
                                /\ \A i \in 1..Len(results) :
                                       results[i].error \in SessionErrors
              IN  IF a.raised
                    THEN camp' = [camp EXCEPT !.ex[e].pc = "done",
                                              !.ex[e].ret = "False",
                                              !.ex[e].err = ErrException,
                                              !.ex[e].sessionFailed = allSession,
                                              !.msgs = a.msgs,
                                              !.status = "failed"]
                    ELSE camp' = [camp EXCEPT !.ex[e].pc = "complete",
                                              !.ex[e].sessionFailed = allSession,
                                              !.ex[e].successful_sends = a.successful_sends,
                                              !.ex[e].failed_sends = a.failed_sends,
                                              !.msgs = a.msgs]

\* campaign.status = 'completed'; campaign.save(); return {'success': True, ...}
ec_complete(e) ==
    /\ camp.ex[e].pc = "complete"
    /\ camp' = [camp EXCEPT !.ex[e].pc = "done", !.ex[e].ret = "True",
                            !.status = "completed"]
    /\ UNCHANGED svcVars

\* cancel_campaign: campaign = Campaign.objects.get(id=campaign_id)
cc_get ==
    /\ Created
    /\ camp.cancel.pc = "idle"
    /\ camp' = [camp EXCEPT !.cancel = [pc |-> "service", read |-> camp.status]]
    /\ UNCHANGED svcVars

\* if campaign.status != 'running': return failure; campaign.status =
\* 'cancelled'; campaign.save(); pending messages become 'failed'
cc_save ==
    /\ camp.cancel.pc = "service"
    /\ IF camp.cancel.read # "running"
         THEN camp' = [camp EXCEPT !.cancel.pc = "done"]
         ELSE camp' = [camp EXCEPT
                 !.cancel.pc = "done",
                 !.status = "cancelled",
                 !.wasCancelled = TRUE,
                 !.msgs = [i \in 1..Len(@) |->
                              IF @[i].status = "pending"
                                THEN [@[i] EXCEPT !.status = "failed"]
                                ELSE @[i]]]
    /\ UNCHANGED svcVars

\* CampaignViewSet.cancel: campaign = self.get_object()
vc_get ==
    /\ Created
    /\ camp.cancel.pc = "idle"
    /\ camp' = [camp EXCEPT !.cancel = [pc |-> "view", read |-> camp.status]]
    /\ UNCHANGED svcVars

\* if campaign.status not in ['scheduled', 'running']: 400;
\* campaign.status = 'cancelled'; campaign.save()
vc_save ==
    /\ camp.cancel.pc = "view"
    /\ IF camp.cancel.read \notin {"scheduled", "running"}
         THEN camp' = [camp EXCEPT !.cancel.pc = "done"]
         ELSE camp' = [camp EXCEPT !.cancel.pc = "done",
                                   !.status = "cancelled",
                                   !.wasCancelled = TRUE]
    /\ UNCHANGED svcVars

\* The steps of send_bulk_messages and of the session calls under it.
BulkStep ==
    \/ cb_start
    \/ cb_copy
    \/ tv_start
    \/ tv_probe
    \/ qr_start
    \/ qr_wait
    \/ qr_done
    \/ rc_start
    \/ rc_restore
    \/ rc_tested
    \/ rc_return
    \/ sb_install
    \/ sb_start
    \/ sb_home
    \/ sb_recreated
    \/ sb_reopen
    \/ sb_recheck
    \/ sb_loop
    \/ sb_wait
    \/ sb_click
    \/ sb_finally

\* The operator has the result of setup_session.
ss_finish ==
    /\ op = "setup_session"
    /\ Finish

\* One execute_campaign call, a cancel at any moment; the operator sets the
\* session up between calls and the platform ends it when it likes.
NextCampaign ==
    \/ PlatformLogout
    \/ call_setup_session
    \/ ss_start
    \/ ss_wait
    \/ ss_done
    \/ ss_finish
    \/ cp_create
    \/ ec_get(1)
    \/ ec_start(1)
    \/ ec_create(1)
    \/ ec_send(1)
    \/ ec_results(1)
    \/ ec_complete(1)
    \/ cc_get
    \/ cc_save
    \/ vc_get
    \/ vc_save
    \/ BulkStep

SpecCampaign == Init /\ [][NextCampaign]_vars

\* A campaign with one target, started twice at the same time (the start
\* endpoint called twice, or the endpoint and the run_campaign command).
InitTwice ==
    /\ InitService
    /\ loc = Loc0
    /\ norm = Norm0
    /\ \E p \in Phones : \E st \in {"draft", "scheduled"} :
          camp = [Camp0 EXCEPT !.phones = <<p>>, !.status = st,
                               !.cancel.read = "created"]

NextTwice ==
    \/ \E e \in Executors : ec_get(e)
    \/ \E e \in Executors : ec_start(e)
    \/ \E e \in Executors : ec_create(e)
    \/ \E e \in Executors : ec_send(e)
    \/ \E e \in Executors : ec_results(e)
    \/ \E e \in Executors : ec_complete(e)
    \/ BulkStep

SpecTwice == InitTwice /\ [][NextTwice]_vars

\* ------------------------------------------------------ bulk-send API view
\* SentMessageViewSet.send_bulk_messages (whatsapp_messages/views.py)
\* recipients = request.data.get('recipients', []); try:
\* results = WhatsAppWebService().send_bulk_messages(recipients, message)
vw_call ==
    /\ camp.view.pc = "idle"
    /\ \E n \in 1..MaxRecipients : \E R \in [1..n -> Phones] :
          /\ Enter("send_bulk_messages", R, "sb_install")
          /\ camp' = [camp EXCEPT !.view = [View0 EXCEPT !.pc = "sending",
                                                         !.request = R]]
    /\ trail' = "none"

\* What WhatsApp Web reports when it sent nothing because the browser did not
\* start or the session could not be established.
WebFailure(res) ==
    /\ res # <<>>
    /\ \A i \in 1..Len(res) : res[i].error \in SessionErrors \cup {ErrDriverInit}

\* except Exception: results = TwilioWhatsAppService().send_bulk_messages(...);
\* then one SentMessage row per result, 'sent' or 'failed'
vw_results ==
    /\ camp.view.pc = "sending"
    /\ op = "send_bulk_messages"
    /\ Leave
    /\ IF outcome = "raised"
         THEN \E tw \in [1..Len(camp.view.request) -> {"sent", "failed"}] :
                 camp' = [camp EXCEPT !.view.pc = "done",
                                      !.view.webFailed = TRUE,
                                      !.view.twilio = TRUE,
                                      !.view.records = tw]
         ELSE camp' = [camp EXCEPT
                 !.view.pc = "done",
                 !.view.webFailed = WebFailure(results),
                 !.view.records = [i \in 1..Len(results) |-> results[i].status]]

\* return Response({'success': True, ...}, status=201)
vw_respond ==
    /\ camp.view.pc = "done"
    /\ camp' = [camp EXCEPT !.view = View0]
    /\ UNCHANGED svcVars

NextView ==
    \/ vw_call
    \/ vw_results
    \/ vw_respond
    \/ BulkStep

SpecView == Init /\ [][NextView]_vars

\* ================================================================ claims
Dispatch == {"send_message", "send_bulk_messages"}
Returned(name) == op = name /\ pc = "done" /\ outcome = "returned"
Range(q) == {q[i] : i \in 1..Len(q)}
Count(q, x) == Cardinality({i \in 1..Len(q) : q[i] = x})
UpTo(n) == [i \in 1..n |-> i]
IsSessionError(r) == ~r.success /\ r.error \in SessionErrors

\* C1: the list returned by send_bulk_messages has exactly one entry per
\* recipient, and the i-th entry is the result for the i-th recipient.
C1_BulkLengthOrder ==
    Returned("send_bulk_messages") =>
        /\ Len(results) = Len(recipients)
        /\ \A i \in 1..Len(results) :
              results[i].recipient \in {recipients[i], StripPrefix(recipients[i])}

C1_Witness ==
    /\ Returned("send_bulk_messages")
    /\ Len(recipients) = 2
    /\ recipients[1] # recipients[2]
    /\ results[1].success
    /\ ~results[2].success

\* C2: send_message and send_bulk_messages never raise into the caller; every
\* failure, a failing driver installation included, comes back as a result.
C2_NeverRaises ==
    (op \in Dispatch /\ pc = "done" /\ recipients # <<>>) =>
        /\ outcome = "returned"
        /\ Len(results) = Len(recipients)

\* C3: in a batch whose session validated at the start, a failure for one
\* recipient does not stop the batch: every recipient is navigated to once, in
\* input order, and each result reflects what happened for its own recipient.
C3_BatchContinues ==
    (op = "send_bulk_messages" /\ hist.okAtStart) =>
        /\ pc = "sb_loop" =>
              /\ Len(results) = idx - 1
              /\ hist.navLog = UpTo(idx - 1)
        /\ Returned("send_bulk_messages") =>
              /\ hist.navLog = UpTo(Len(recipients))
              /\ \A i \in 1..Len(results) :
                    /\ results[i].success => i \in Range(hist.clicks)
                    /\ i \notin Range(hist.lookups) => results[i].error = ErrException
                    /\ i \in Range(hist.lookups) \ Range(hist.clicks)
                          => results[i].error = ErrSendButton

C3_Witness ==
    /\ Returned("send_bulk_messages")
    /\ hist.okAtStart
    /\ Len(recipients) = 2
    /\ ~results[1].success
    /\ results[2].success

\* C4 (as stated): without a stored session profile send_bulk_messages returns
\* only failed results citing a session error and navigates to no recipient
\* (a browser that cannot be started is counted with the session errors here).
C4_NoProfileAllFail ==
    (Returned("send_bulk_messages") /\ hist.profileAtCall = "none") =>
        /\ \A i \in 1..Len(results) :
              /\ ~results[i].success
              /\ results[i].error \in SessionErrors \cup {ErrDriverInit}
        /\ hist.navLog = <<>>

\* C4 (amended): without a stored session profile, when the session cannot be
\* recreated (the recreation returns False or the re-check after it fails),
\* send_bulk_messages returns only failed results citing a session error and
\* navigates to no recipient.
C4_NoProfileRecreateFails ==
    (/\ Returned("send_bulk_messages")
     /\ hist.profileAtCall = "none"
     /\ (hist.recreateRv = "False" \/ hist.recheck = "False")) =>
        /\ \A i \in 1..Len(results) : IsSessionError(results[i])
        /\ hist.navLog = <<>>

C4_Witness ==
    /\ Returned("send_bulk_messages")
    /\ hist.profileAtCall = "none"
    /\ hist.recreateRv = "False"
    /\ Len(results) = 2
    /\ IsSessionError(results[1])

\* C5 (as stated): a dispatch call returns a session-error result if and only
\* if the recreation failed; then nothing was navigated to and every result is
\* failed.
C5_SessionErrorIffRecreateFailed ==
    (op \in Dispatch /\ pc = "done" /\ outcome = "returned" /\ recipients # <<>>) =>
        /\ (\E i \in 1..Len(results) : IsSessionError(results[i]))
              <=> hist.recreateRv = "False"
        /\ (\E i \in 1..Len(results) : IsSessionError(results[i])) =>
              /\ hist.navLog = <<>>
              /\ \A i \in 1..Len(results) : ~results[i].success

\* C5 (amended): a dispatch call returns a session-error result if and only if
\* the recreation returned False or the session re-check that follows a
\* successful recreation failed; then nothing was navigated to and every
\* result is failed.
C5_SessionErrorIffNotRecovered ==
    (op \in Dispatch /\ pc = "done" /\ outcome = "returned" /\ recipients # <<>>) =>
        /\ (\E i \in 1..Len(results) : IsSessionError(results[i]))
              <=> (hist.recreateRv = "False" \/ hist.recheck = "False")
        /\ (\E i \in 1..Len(results) : IsSessionError(results[i])) =>
              /\ hist.navLog = <<>>
              /\ \A i \in 1..Len(results) : ~results[i].success

C5_Witness ==
    /\ Returned("send_message")
    /\ hist.recreateRv = "True"
    /\ hist.recheck = "False"
    /\ results[1].error = ErrNotRestored

C7_RecreateAtMostOnce ==
    op \in Dispatch =>
        /\ hist.recreateCount <= 1
        /\ stack # <<>> => hist.navLog = <<>>

C7_Witness ==
    /\ Returned("send_message")
    /\ qrLocal
    /\ hist.recreateCount = 1
    /\ hist.navLog # <<>>

\* C8: every result has status 'sent' or 'failed', and success is True exactly
\* when the status is 'sent', when error is None, and when message_sid is set.
C8_ResultShape ==
    op \in Dispatch =>
        \A i \in 1..Len(results) :
            /\ results[i].status \in {"sent", "failed"}
            /\ results[i].success <=> results[i].status = "sent"
            /\ results[i].success <=> results[i].error = None
            /\ results[i].success <=> results[i].message_sid # None

C8_Witness ==
    /\ Returned("send_bulk_messages")
    /\ Len(results) = 2
    /\ results[1].success
    /\ results[2].error = ErrSendButton

\* C9: for a recipient for which the platform shows the invalid-address
\* banner, single or bulk, the result is failed with an address error and the
\* send control is never looked up or clicked.
C9_BannerNoLookup ==
    op \in Dispatch =>
        \A i \in hist.banner :
            /\ i \notin Range(hist.lookups)
            /\ i \notin Range(hist.clicks)
            /\ i <= Len(results) =>
                  (~results[i].success /\ results[i].error = ErrInvalidNumber)

\* C10: a result is successful only if the send control was clicked for that
\* recipient after the navigation to its conversation, and the send control is
\* clicked at most once per recipient per call.
C10_SentOnlyAfterClick ==
    op \in Dispatch =>
        /\ \A i \in 1..Len(results) :
              results[i].success => i \in Range(hist.clicks)
        /\ Range(hist.clicks) \subseteq Range(hist.navLog)
        /\ \A i \in 1..Len(recipients) : Count(hist.clicks, i) <= 1

C10_Witness ==
    /\ Returned("send_bulk_messages")
    /\ Len(results) = 2
    /\ results[1].success
    /\ results[2].success
    /\ hist.clicks = <<1, 2>>

SessionCalls ==
    {"send_message", "send_bulk_messages", "setup_session",
     "_test_session_validity", "_recreate_session_automatically"}
SameOrAged(now, before) == now \in {before, Aged(before)}
OnlyKth(K) ==
    /\ loc.avail[K] # 0
    /\ \A j \in 1..loc.n : j # K => loc.avail[j] = 0

\* A step of two dispatch calls that leaves the profile to one context, and
\* removes it only while the other call has no context open.
KeptApart ==
    op \in Dispatch =>
        /\ ~(ctxOpen' > 0 /\ other'.ctx)
        /\ (pc = "rc_start" /\ pc' = "rc_restore") => ~other.ctx
        /\ (pc = "rc_tested" /\ pc' = "qr_start") => ~other.ctx
        /\ (other.pc = "recreate" /\ other'.pc = "idle") => ctxOpen = 0

\* C11: when send_message, send_bulk_messages, setup_session,
\* _test_session_validity or _recreate_session_automatically has returned, on
\* any path and also as a nested call, every browser context opened during
\* the call has been closed.
C11_ContextsClosed ==
    /\ (pc = "done" /\ op \in SessionCalls) => ctxOpen = 0
    /\ pc \in {"rc_tested", "rc_return", "sb_recreated", "sm_qr_recreated",
               "sm_noqr_recreated"} => ctxOpen = 0

C11_Witness ==
    /\ Returned("send_message")
    /\ ctxOpened >= 3
    /\ ctxOpen = 0

\* C12: with two dispatch calls running at once, the profile directory is
\* never open in two browser contexts at the same time, and no call deletes
\* the profile while a context of the other call has it open.
C12_ProfileNotShared == [][KeptApart]_vars

\* C13: after every login handshake that succeeded (setup_session or
\* _setup_fresh_session_with_qr returned True) a backup exists and equals the
\* profile that just logged in.
C13_BackupAfterHandshake ==
    (/\ hist.handshake = "True"
     /\ (pc = "rc_return" \/ (op = "setup_session" /\ pc = "done"))) =>
        /\ backup \notin {"none", "partial"}
        /\ backup = profile

\* C14: create_session_backup called when no session profile has been
\* established returns False, does not raise, and leaves an existing backup
\* as it was.
C14_NoSessionNoBackup ==
    (/\ op = "create_session_backup"
     /\ pc = "done"
     /\ hist.profileAtCall \in {"none", "empty"}) =>
        /\ outcome = "returned"
        /\ retval = FALSE
        /\ SameOrAged(backup, hist.backupAtCall)

\* C15: create_session_backup replaces the backup atomically: whatever step
\* fails, the backup is afterwards either the previous backup or a complete
\* copy of the profile, never missing, partial or merged.
C15_BackupAtomic ==
    (op = "create_session_backup" /\ pc = "done") =>
        \/ SameOrAged(backup, hist.backupAtCall)
        \/ backup = profile

\* C16: setup_session reports every failure as False and never raises; in
\* particular it returns False when the handshake times out.
C16_SetupNeverRaises ==
    (op = "setup_session" /\ pc = "done") =>
        /\ outcome = "returned"
        /\ hist.handshake # "True" => retval = FALSE

\* C17: setup_session only performs the handshake: it never runs the session
\* recreation, never restores the profile from the backup, never deletes or
\* empties the profile, and changes the backup only after the login indicator
\* has appeared.
C17_SetupOnlyHandshake ==
    op = "setup_session" =>
        /\ hist.recreateCount = 0
        /\ ~hist.restored
        /\ ~hist.qrStarted
        /\ hist.tested = None
        /\ profile \in {"none", "empty"} => profile = hist.profileAtCall
        /\ ~hist.indicator => SameOrAged(backup, hist.backupAtCall)

C17_Witness ==
    /\ Returned("setup_session")
    /\ retval = TRUE
    /\ hist.indicator
    /\ hist.backupAtCall = "stale"
    /\ backup = "valid"

\* C18: whatsapp_web_status never changes the stored session state, the
\* existence of the directories included, and starts no browser.
C18_StatusReadOnly ==
    op = "whatsapp_web_status" =>
        /\ SameOrAged(profile, hist.profileAtCall)
        /\ SameOrAged(backup, hist.backupAtCall)
        /\ ctxOpened = 0

\* C19 (as stated): a lookup with N candidates of which only the K-th ever
\* succeeds returns the K-th handle, and no candidate declared after the K-th
\* has been invoked.
C19_FirstMatchOnly ==
    loc.done =>
        \A K \in 1..loc.n :
            OnlyKth(K) =>
                /\ loc.ret = K
                /\ loc.invoked \subseteq 1..K

\* C19 (amended): a lookup with N candidates of which only the K-th ever
\* succeeds returns the K-th handle; for the compose input no candidate
\* declared after the K-th is invoked, and for the send control none is
\* invoked in the poll that finds the K-th.
C19_FirstMatchPerPoll ==
    loc.done =>
        \A K \in 1..loc.n :
            OnlyKth(K) =>
                /\ loc.ret = K
                /\ loc.kind = "chain" => loc.invoked = 1..K
                /\ loc.kind = "wait" => loc.invokedNow = 1..K

C19_Witness ==
    /\ loc.done
    /\ loc.kind = "wait"
    /\ loc.n = SendCandidates
    /\ OnlyKth(3)
    /\ loc.avail[3] = 2
    /\ loc.ret = 3
    /\ loc.invoked = 1..SendCandidates
    /\ loc.invokedNow = 1..3

\* C20: when the browser context of send_bulk_messages cannot be initialised,
\* the installation of the driver included, every recipient gets a failed
\* result with the driver-initialisation error and none is navigated to; the
\* handler runs only while no per-recipient result has been appended.
C20_DriverInitFailure ==
    (op = "send_bulk_messages" /\ recipients # <<>>) =>
        /\ (pc = "done" /\ hist.initFailed) =>
              /\ outcome = "returned"
              /\ Len(results) = Len(recipients)
              /\ \A i \in 1..Len(results) : results[i].error = ErrDriverInit
              /\ hist.navLog = <<>>
        /\ (\E i \in 1..Len(results) : results[i].error = ErrDriverInit) =>
              \A i \in 1..Len(results) : results[i].error = ErrDriverInit

\* C21 (as stated): a send_bulk_messages call opens exactly one browser
\* context during its whole execution (none when the browser cannot start),
\* and every recipient's navigation and send goes through that one context.
C21_OneContext ==
    op = "send_bulk_messages" =>
        /\ ctxOpened <= 1
        /\ Cardinality(hist.navCtx) <= 1

\* C21 (amended): a send_bulk_messages call whose session validates at the
\* first check opens exactly one browser context, and a call that does not
\* recreate the session opens at most one; in every case all recipients are
\* navigated to and sent through one single context, the last one the call
\* opened, which is open and validated during the whole loop.
C21_OneContextForRecipients ==
    op = "send_bulk_messages" =>
        /\ hist.okAtStart => ctxOpened = 1
        /\ hist.recreateCount = 0 => ctxOpened <= 1
        /\ hist.navCtx \subseteq {ctxOpened}
        /\ pc \in {"sb_loop", "sb_wait", "sb_click"} =>
              (ctxOpen = 1 /\ driver = "open" /\ validated)

C21_Witness ==
    /\ Returned("send_bulk_messages")
    /\ hist.recreateCount = 1
    /\ ctxOpened = 3
    /\ hist.navLog = <<1, 2>>
    /\ hist.navCtx = {3}

\* C22: in every bulk result, on every path, the 'recipient' field holds the
\* same normalized form of the corresponding input address (the form the loop
\* body records: the address without its 'whatsapp:' prefix).
C22_RecipientNormalized ==
    op = "send_bulk_messages" =>
        \A i \in 1..Len(results) :
            results[i].recipient = StripPrefix(recipients[i])

\* C23: for every recipient written with digits, '+', space, '-', '(', ')',
\* '.' and an optional 'whatsapp:' prefix, the address put into the
\* conversation URL has digits only, single and bulk dispatch compute the
\* same address, and normalizing a normalized address changes nothing.
C23_DigitsOnly ==
    norm.step = 3 =>
        /\ Range(norm.single) \subseteq Digits
        /\ Range(norm.bulk) \subseteq Digits
        /\ norm.single = norm.bulk
        /\ norm.again = norm.single

\* C24: send_message does not rely on the URL pre-fill alone: whenever it
\* clicks the send control, the compose input has first been located and its
\* content overwritten with the message text.
C24_OverwriteBeforeClick ==
    (op = "send_message" /\ hist.clicks # <<>>) => hist.overwritten

\* The four operations whose waits C25 is about.
Blocking ==
    {"send_message", "send_bulk_messages", "setup_session",
     "_recreate_session_automatically"}

\* C25: every call to send_message, send_bulk_messages (for a finite recipient
\* list), setup_session and _recreate_session_automatically comes to its end:
\* every wait on the platform UI is bounded, so a call that has started is
\* eventually over (pc = "done": returned, or left by an exception of the
\* browser start-up), also when no UI target or login indicator ever appears.
C25_EventuallyReturns ==
    (op \in Blocking /\ pc \notin {"idle", "done"}) ~> (pc = "done")

\* a bulk call over two recipients that is over after the send control was
\* found for neither: both waits ended by their timeout
C25_Witness ==
    /\ op = "send_bulk_messages"
    /\ pc = "done"
    /\ Len(results) = 2
    /\ \A i \in 1..2 : results[i].error = ErrSendButton
    /\ hist.clicks = <<>>
    /\ Len(hist.lookups) = 2

\* The UI steps send_message performs for its recipient once the session is
\* valid, in order, and every stage it can have reached on the way.
SingleSteps ==
    {<<>>, <<"nav">>, <<"nav", "chat_wait">>,
     <<"nav", "chat_wait", "overwrite">>,
     <<"nav", "chat_wait", "lookup">>,
     <<"nav", "chat_wait", "overwrite", "lookup">>,
     <<"nav", "chat_wait", "lookup", "click">>,
     <<"nav", "chat_wait", "overwrite", "lookup", "click">>}

\* send_message itself never leaves SingleSteps
C26_SingleStepsExact == op = "send_message" => hist.steps \in SingleSteps

\* C26: for every recipient and every platform behaviour, what
\* send_bulk_messages does and records for the recipient equals what
\* send_message does and returns for it once the session is valid: the same UI
\* steps (wait for the compose input or the error banner, overwrite of the
\* compose input, send-control lookup, click) and the same classification of a
\* recipient whose page shows the error banner.
C26_BulkAsSingle ==
    op \in Dispatch =>
        /\ hist.steps \in SingleSteps
        /\ \A i \in 1..Len(results) :
               i \in hist.banner => results[i].error = ErrInvalidNumber

\* C27: in _recreate_session_automatically the fresh QR handshake is reached
\* only when no backup exists or the restored backup failed validation, and the
\* handshake browser is launched against a profile directory that holds
\* nothing: the invalid live profile and a restored copy that failed
\* validation have been deleted before.
C27_HandshakeOnEmptyProfile ==
    pc = "qr_start" =>
        /\ profile \in {"none", "empty"}
        /\ IF hist.restored THEN hist.tested = "False" ELSE backup = "none"

\* the handshake is about to start after a stale backup was restored over a
\* logged-out profile, failed the test and was deleted again
C27_Witness ==
    /\ pc = "qr_start"
    /\ hist.profileAtCall = "stale"
    /\ hist.restored
    /\ hist.tested = "False"
    /\ backup = "stale"
    /\ profile = "empty"

\* C28 (as stated): when two send-control candidates i < j both match within
\* the wait window, the handle returned is the one of candidate i, whichever
\* of the two becomes available first; a later-declared candidate wins only
\* if no earlier-declared candidate matches within the window.
C28_EarlierDeclaredWins ==
    (loc.done /\ loc.kind = "wait" /\ loc.ret # 0) =>
        \A i \in 1..(loc.ret - 1) : loc.avail[i] = 0

\* C28 (amended): the wait returns at the first poll at which any candidate
\* matches, with the handle of the earliest-declared candidate matching at
\* that poll: of two candidates i < j, j wins only if i does not yet match at
\* the poll at which j first matches; no handle is returned only if no
\* candidate matches within the window.
C28_EarliestPollThenDeclaration ==
    (loc.done /\ loc.kind = "wait") =>
        /\ loc.ret = 0 => \A i \in 1..loc.n : loc.avail[i] = 0
        /\ loc.ret # 0 =>
              /\ loc.avail[loc.ret] # 0
              /\ loc.poll = loc.avail[loc.ret]
              /\ \A i \in 1..loc.n :
                     loc.avail[i] # 0 =>
                         \/ loc.avail[loc.ret] < loc.avail[i]
                         \/ loc.avail[loc.ret] = loc.avail[i] /\ loc.ret <= i

\* candidates 2 and 5 of the seven both match within the window, 5 from the
\* first poll and 2 from the second: the wait returns 5 at the first poll
C28_Witness ==
    /\ loc.done
    /\ loc.kind = "wait"
    /\ loc.n = SendCandidates
    /\ loc.avail[2] = 2
    /\ loc.avail[5] = 1
    /\ \A k \in 1..loc.n : k \notin {2, 5} => loc.avail[k] = 0
    /\ loc.ret = 5
    /\ loc.poll = 1

\* The steps that only look for the login indicator or the QR code.
ProbePcs ==
    {"tv_start", "tv_probe", "sm_home", "sm_qrfind", "sm_noqr", "sm_qr_recheck",
     "sm_noqr_recheck", "sb_home", "sb_recheck"}

\* A step of the service itself, as opposed to one of the platform or operator.
OwnStep == pc' # pc \/ stack' # stack

\* The profile loses its content in this step.
ProfileDeleted == profile \notin {"none", "empty"} /\ profile' \in {"none", "empty"}

\* create_session_backup is running on behalf of a handshake that has just
\* observed the login indicator.
AfterIndicator == stack # <<>> /\ Head(stack) \in {"qr_done", "ss_done"}

\* The start-of-call login probe of this call has failed.
ProbeFailed == op \in Dispatch /\ ~hist.okAtStart /\ ~validated

FrameAsStated ==
    OwnStep =>
        /\ pc \in ProbePcs => UNCHANGED fsVars
        /\ ProfileDeleted => pc \in {"rc_start", "rc_tested"}
        /\ pc = "rc_start" => ProbeFailed
        /\ backup' # backup => (pc \in {"cb_start", "cb_copy"} /\ AfterIndicator)

FrameOfServiceCalls ==
    OwnStep =>
        /\ pc \in ProbePcs => UNCHANGED fsVars
        /\ ProfileDeleted => pc \in {"rc_start", "rc_tested"}
        /\ (pc = "rc_start" /\ op # "_recreate_session_automatically") => ProbeFailed
        /\ backup' # backup =>
              /\ pc \in {"cb_start", "cb_copy"}
              /\ op # "create_session_backup" => AfterIndicator

\* C29 (as stated): session validation is a read-only probe
\* (_test_session_validity and the login check at the start of send_message
\* and send_bulk_messages never change the profile or the backup); the
\* profile is deleted only inside _recreate_session_automatically, which is
\* entered only after a login probe failed in the same call; the backup is
\* written only right after a login indicator was observed in a handshake.
C29_ReadOnlyProbe == [][FrameAsStated]_vars

\* C29 (amended): the probes never change the profile or the backup; the
\* profile is deleted only inside _recreate_session_automatically, which
\* send_message and send_bulk_messages enter only after their login probe
\* failed in the same call; the backup is written only by
\* create_session_backup, which the service calls only right after a handshake
\* observed the login indicator.  A direct call of
\* _recreate_session_automatically or of create_session_backup is preceded
\* by no probe and no handshake.
C29_ReadOnlyProbeInCalls == [][FrameOfServiceCalls]_vars

\* a dispatch whose login probe failed is leaving the fresh handshake: the
\* stale profile was deleted, the restored backup failed its test and was
\* deleted too, and the backup has been rewritten after the code was scanned
C29_Witness ==
    /\ op \in Dispatch
    /\ pc = "qr_done"
    /\ hist.profileAtCall = "stale"
    /\ hist.backupAtCall = "stale"
    /\ hist.restored
    /\ hist.tested = "False"
    /\ ~hist.okAtStart
    /\ profile = "valid"
    /\ backup = "valid"

\* C30: every failed result's error names the failure class that occurred: a
\* recipient whose page showed the invalid-number banner is never reported
\* with the missing-send-control error, and the driver-initialisation error is
\* reported only when the browser context failed to start, never for a failed
\* navigation to the home page.
C30_ErrorNamesFailure ==
    op \in Dispatch =>
        \A i \in 1..Len(results) :
            /\ results[i].error = ErrSendButton => i \notin hist.banner
            /\ results[i].error = ErrDriverInit => hist.initFailed

\* C31: send_message and send_bulk_messages navigate to a recipient's
\* conversation URL only in a browser context in which the login indicator
\* has been observed during the same call; after a recreation the new context
\* is validated again before any conversation navigation, on every exception
\* path of the session-check block.
C31_NavigateOnlyValidated ==
    (op \in Dispatch /\ pc \in {"sm_chat", "sb_wait"}) =>
        /\ validated
        /\ driver = "open"

\* During a dispatch call, a profile the platform accepts stays as it is unless
\* the platform itself ends the session.
ValidKept ==
    (op \in Dispatch /\ pc \notin {"idle", "done"} /\ profile = "valid") =>
        profile' \in {"valid", Aged("valid")}

\* C32: a dispatch call never destroys a session that the platform still
\* accepts: a profile that is authenticated during send_message or
\* send_bulk_messages is not deleted by the call, also when the
\* login-indicator probe times out transiently and no backup exists.
C32_ValidSessionSurvives == [][ValidKept]_vars

\* C33: within one sequential call of send_message or send_bulk_messages at
\* most one browser context is open against the profile at any moment: the
\* dispatching context is closed before recreation deletes or restores the
\* profile, and the validator's and the handshake's contexts are closed
\* before the next one is opened.
C33_OneContextAtATime ==
    op \in Dispatch =>
        /\ ctxOpen \in {0, 1}
        /\ pc \in {"rc_start", "rc_restore", "rc_tested", "rc_return",
                   "tv_start", "qr_start", "sm_qr_recreated",
                   "sm_noqr_recreated", "sb_recreated"} => ctxOpen = 0

\* send_message has navigated in its fourth context: the first was closed
\* before the recreation, the validator's after the restored backup failed
\* its test, the handshake's after the code was scanned
C33_Witness ==
    /\ op = "send_message"
    /\ pc = "sm_chat"
    /\ hist.restored
    /\ hist.tested = "False"
    /\ hist.handshake = "True"
    /\ ctxOpened = 4
    /\ ctxOpen = 1

\* C34: when the session cannot be established for a campaign run
\* (send_bulk_messages reports a session failure for every recipient),
\* execute_campaign returns success False with an error that mentions the
\* WhatsApp Web session.
C34_SessionFailureReported ==
    \A e \in Executors :
        (camp.ex[e].pc = "done" /\ camp.ex[e].sessionFailed) =>
            /\ camp.ex[e].ret = "False"
            /\ camp.ex[e].err \in SessionErrors

\* C35: in the bulk-send API view, whenever WhatsApp Web sending fails (the
\* browser cannot be started or the session cannot be established), the
\* recipients are sent through the Twilio service instead of being recorded
\* as failed.
C35_TwilioFallback ==
    (camp.view.pc = "done" /\ camp.view.webFailed) => camp.view.twilio

\* C36: once a campaign has been cancelled (cancel_campaign or the cancel
\* endpoint set its status to 'cancelled'), its status never afterwards
\* becomes 'completed', also when the cancel happens while execute_campaign
\* is still sending.
C36_CancelledNeverCompleted ==
    camp.wasCancelled => camp.status # "completed"

\* The execute_campaign calls that got past the status check.
Admitted ==
    {e \in Executors :
        \/ camp.ex[e].pc \in {"recipients", "send", "sending", "complete"}
        \/ camp.ex[e].ret = "True"
        \/ camp.ex[e].err \in {ErrNoRecipients, ErrException}}

\* C37: a campaign is executed at most once: two concurrent execute_campaign
\* calls for the same campaign do not both pass the status check, and the
\* CampaignMessage rows are created by at most one of them.
C37_ExecutedAtMostOnce ==
    /\ Cardinality(Admitted) <= 1
    /\ Cardinality({camp.msgs[i].by : i \in 1..Len(camp.msgs)}) <= 1

\* C38: after execute_campaign has returned success for a WhatsApp Web run
\* that nobody cancelled, no CampaignMessage of the campaign is left
\* 'pending' and successful_sends + failed_sends equals the number of
\* recipients, for every phone format, numbers stored with a 'whatsapp:'
\* prefix included.
C38_NoPendingAfterSuccess ==
    (/\ camp.ex[1].pc = "done"
     /\ camp.ex[1].ret = "True"
     /\ camp.cancel.pc = "idle") =>
        /\ \A i \in 1..Len(camp.msgs) : camp.msgs[i].status \in {"sent", "failed"}
        /\ camp.ex[1].successful_sends + camp.ex[1].failed_sends = Len(camp.phones)
====
